---- MODULE Spec2Model ----
(***************************************************************************)
(* Model of src/app.py: the single-job supervisor (spawn_process, its      *)
(* reader thread, api_stop, api_status) and the log broadcaster            *)
(* (broadcast, sse_stream).                                                *)
(*                                                                         *)
(* Threads are the request handler threads of the threaded Flask server    *)
(* and one reader thread per spawned child.  Every step between two        *)
(* points where another thread can observe a difference is one action:     *)
(* a critical section of history_lock is straight-line code on the data    *)
(* that lock guards, so it is one action; so are the critical sections of  *)
(* proc_lock in api_stop, api_status and at the end of reader.  The one    *)
(* critical section that spans several actions is spawn_process's, which   *)
(* calls broadcast while it holds proc_lock.                               *)
(* Optional values (Python None) are sequences: None is <<>>, a present    *)
(* value x is <<x>>.  resp is the HTTP response the last step returned,    *)
(* NoResp when the step returned none.  A log line is named by the job     *)
(* that produced it, its kind and its number, so that two appends are      *)
(* never confused.                                                         *)
(*                                                                         *)
(* The three capacities of the source (2000, 1000, 500) are scaled down    *)
(* to 3, 2, 1, keeping their order, so that eviction, a full queue and a   *)
(* truncated seed all happen within a few lines.                           *)
(***************************************************************************)
EXTENDS Integers, Sequences, FiniteSets, TLC

\* ---------- bounds of the model ----------
\* spawn attempts that pass the busy test (each gets a job number)
MaxJobs == 2
\* output lines one child may write
MaxOut == 1

\* ---------- program constants (scaled) ----------
LOG_HISTORY_MAX == 3
QUEUE_MAXSIZE == 2
SEED_WINDOW == 1
SIGINT == 2

YTDLP_BIN == "yt-dlp"

None == <<>>
Some(x) == <<x>>

Handlers == {<<"h", 1>>, <<"h", 2>>}
Jobs == 1..MaxJobs
Readers == {<<"r", j>> : j \in Jobs}
Threads == Handlers \cup Readers
NoThread == <<"none", 0>>

IsHandler(t) == t[1] = "h"

\* A log line.  kind "start" is the '# Starting: ...' line of spawn attempt
\* job, "out" the n-th output line of child job, "fin" the
\* '# Finished with exit code n' line of child job.
Line(kind, job, n) == [kind |-> kind, job |-> job, n |-> n]
NoLine == Line("none", 0, 0)

\* the inputs of the adapters
URLs == {"", "u"}
Cmds == {"", "c"}

VARIABLES
    proc_lock,      \* thread holding proc_lock, or NoThread
    current_proc,   \* the slot: [p, start_ts, args, raw]
    subscribers,    \* set of registered queues (named by their handler thread)
    history,        \* the log ring
    q,              \* q[h]: the queue of handler h's sse_stream
    pc,             \* position of every thread
    cur,            \* cur[t]: the line thread t is broadcasting
    req,            \* req[h]: arguments of the spawn_process call of handler h
    resp,           \* the response the last step returned to a client, or NoResp
    child,          \* child[j]: the OS process of job j
    nstart          \* number of spawn attempts that passed the busy test

vars == <<proc_lock, current_proc, subscribers, history, q, pc, cur, req,
          resp, child, nstart>>

IdleSlot == [p |-> None, start_ts |-> None, args |-> None, raw |-> FALSE]
NoReq == [args |-> <<>>, raw |-> FALSE]
NoChild == [st |-> "none", pipe |-> <<>>, nout |-> 0, sig |-> FALSE, rc |-> 0]
Resp(s) == [status |-> s]
\* resp when the last step returned no response
NoResp == Resp("none")

Init ==
    /\ proc_lock = NoThread
    /\ current_proc = IdleSlot
    /\ subscribers = {}
    /\ history = <<>>
    /\ q = [h \in Handlers |-> <<>>]
    /\ pc = [t \in Threads |-> IF IsHandler(t) THEN "idle" ELSE "off"]
    /\ cur = [t \in Threads |-> NoLine]
    /\ req = [h \in Handlers |-> NoReq]
    /\ resp = NoResp
    /\ child = [j \in Jobs |-> NoChild]
    /\ nstart = 0

\* ---------- pure helpers ----------
\* history[-n:]
LastN(s, n) == IF Len(s) <= n THEN s ELSE SubSeq(s, Len(s) - n + 1, Len(s))

\* faulty variant of the trim: keeps the oldest lines, drops the new one
HistoryAppendKeepOldest(h, line) ==
    IF Len(h) >= LOG_HISTORY_MAX THEN h ELSE Append(h, line)

\* history.append(line); if len(history) > LOG_HISTORY_MAX: keep the last
HistoryAppend(h, line) == LastN(Append(h, line), LOG_HISTORY_MAX)

\* q.put_nowait raises queue.Full
QueueFull(s) == Len(s) >= QUEUE_MAXSIZE

\* the seeding loop of sse_stream: put the lines until the queue is full
RECURSIVE SeedQueue(_, _)
SeedQueue(qu, lines) ==
    IF lines = <<>> \/ QueueFull(qu) THEN qu
    ELSE SeedQueue(Append(qu, Head(lines)), SubSeq(lines, 2, Len(lines)))

\* subscribers.discard(x): no error when x is absent
Discard(S, x) == S \ {x}

\* faulty variant of the seed: the newest line first
SeedNewestFirst(h, n) ==
    SeedQueue(<<>>, [i \in 1..Len(LastN(h, n)) |->
                        LastN(h, n)[Len(LastN(h, n)) + 1 - i]])

\* for ln in history[-n:]: q.put_nowait(ln), on a new queue
Seed(h, n) == SeedQueue(<<>>, LastN(h, n))

\* faulty variants of the test: never busy; busy only for a raw job
SlotBusyNever(cp) == FALSE
SlotBusyRawOnly(cp) == cp.raw

\* the test of spawn_process: current_proc["p"] is not None
SlotBusy(cp) == cp.p # None

\* build_args_from_form for a form that carries only the url
BuildArgs(url) ==
    <<YTDLP_BIN, "--newline", "-f", "bestvideo+bestaudio/best", url>>

\* shlex.split of a one-word command
ShlexSplit(cmd) == <<cmd>>

\* faulty variant of the put: the line goes to the front of the queue
FanOutPutFront(qu, line) == IF QueueFull(qu) THEN qu ELSE <<line>> \o qu

\* q.put_nowait(line) of the fan-out loop: a full queue is left as it is
FanOutPut(qu, line) == IF QueueFull(qu) THEN qu ELSE Append(qu, line)

\* faulty variant of the dead list: a full queue stays registered
DeadQueuesNone(snap, qs) == {}

\* the dead list of broadcast: the snapshot's queues whose put_nowait raised
DeadQueues(snap, qs) == {s \in snap : QueueFull(qs[s])}

\* faulty variant: the reader ends without clearing the slot
AfterBroadcastNoClear(t, line) ==
    IF IsHandler(t) THEN "sp_popen"
    ELSE IF line.kind = "out" THEN "read" ELSE "done"

\* faulty variant: the reader clears the slot after an output line
AfterBroadcastClearEarly(t, line) ==
    IF IsHandler(t) THEN "sp_popen" ELSE "clear"

\* where a thread continues when its broadcast call returns
AfterBroadcast(t, line) ==
    IF IsHandler(t) THEN "sp_popen"
    ELSE IF line.kind = "out" THEN "read" ELSE "clear"

\* subprocess.Popen raises for an empty argv; otherwise the OS decides
PopenOutcomes(args) == IF args = <<>> THEN {FALSE} ELSE {TRUE, FALSE}

\* Popen.returncode of a child ended by a signal
SignalledRc(sig) == 0 - sig

\* faulty variant: the slot is given the handle but no timestamp
RunningSlotNoTs(j, r) ==
    [p |-> Some(j), start_ts |-> None, args |-> Some(r.args), raw |-> r.raw]

\* current_proc.update({"p": p, "start_ts": time.time(), "args": args, ...})
\* (the timestamp of job j is modelled by j: later jobs have later timestamps)
RunningSlot(j, r) ==
    [p |-> Some(j), start_ts |-> Some(j), args |-> Some(r.args), raw |-> r.raw]

\* ---------- broadcast (called by spawn_process and by reader) ----------
\* with history_lock: history.append(line), trim
BcAppend(t) ==
    /\ pc[t] = "bc_append"
    /\ history' = HistoryAppend(history, cur[t])
    /\ pc' = [pc EXCEPT ![t] = "bc_fanout"]
    /\ resp' = NoResp
    /\ UNCHANGED <<proc_lock, current_proc, subscribers, q, cur, req, child,
                   nstart>>

\* for q in list(subscribers): put_nowait or mark dead; discard the dead.
\* The loop runs on the snapshot list(subscribers) takes; a put commutes with
\* the steps of the other threads but a get on the same queue, which falls
\* before or after this action, and discard is idempotent: one action.
BcFanOut(t) ==
    /\ pc[t] = "bc_fanout"
    /\ q' = [s \in Handlers |->
                IF s \in subscribers THEN FanOutPut(q[s], cur[t]) ELSE q[s]]
    /\ subscribers' = subscribers \ DeadQueues(subscribers, q)
    /\ pc' = [pc EXCEPT ![t] = AfterBroadcast(t, cur[t])]
    /\ cur' = [cur EXCEPT ![t] = NoLine]
    /\ resp' = NoResp
    /\ UNCHANGED <<proc_lock, current_proc, history, req, child, nstart>>

\* ---------- the adapters and Start ----------
\* spawn_process: with proc_lock: if current_proc["p"] is not None: raise
SpBusy(t, r) ==
    /\ pc[t] = "idle"
    /\ proc_lock = NoThread
    /\ SlotBusy(current_proc)
    /\ resp' = Resp("error: Another task is running")
    /\ UNCHANGED <<proc_lock, current_proc, subscribers, history, q, pc, cur,
                   req, child, nstart>>

\* spawn_process: with proc_lock: the slot is free: broadcast('# Starting: ...')
SpClaim(t, r) ==
    /\ pc[t] = "idle"
    /\ proc_lock = NoThread
    /\ ~SlotBusy(current_proc)
    /\ nstart < MaxJobs
    /\ proc_lock' = t
    /\ nstart' = nstart + 1
    /\ req' = [req EXCEPT ![t] = r]
    /\ cur' = [cur EXCEPT ![t] = Line("start", nstart + 1, 0)]
    /\ pc' = [pc EXCEPT ![t] = "bc_append"]
    /\ resp' = NoResp
    /\ UNCHANGED <<current_proc, subscribers, history, q, child>>

\* spawn_process(args, raw) up to its call of broadcast
SpawnProcess(t, r) == SpBusy(t, r) \/ SpClaim(t, r)

\* api_start: build_args_from_form raises ValueError for a missing url
ApiStart(t, url) ==
    IF url = ""
    THEN /\ pc[t] = "idle"
         /\ resp' = Resp("error: Missing URL")
         /\ UNCHANGED <<proc_lock, current_proc, subscribers, history, q, pc,
                        cur, req, child, nstart>>
    ELSE SpawnProcess(t, [args |-> BuildArgs(url), raw |-> FALSE])

\* api_run_raw: an empty cmd is answered with 'Missing cmd'
ApiRunRaw(t, cmd) ==
    IF cmd = ""
    THEN /\ pc[t] = "idle"
         /\ resp' = Resp("error: Missing cmd")
         /\ UNCHANGED <<proc_lock, current_proc, subscribers, history, q, pc,
                        cur, req, child, nstart>>
    ELSE SpawnProcess(t, [args |-> ShlexSplit(cmd), raw |-> TRUE])

\* Start(argv, rawMode) of the core with an empty argv: spawn_process([])
\* itself makes no test of its argument
StartEmpty(t) == SpawnProcess(t, [args |-> <<>>, raw |-> FALSE])

\* subprocess.Popen succeeds: current_proc.update, release proc_lock,
\* start the reader thread, answer 'started'
SpPopenOk(t) ==
    /\ pc[t] = "sp_popen"
    /\ TRUE \in PopenOutcomes(req[t].args)
    /\ child' = [child EXCEPT ![nstart] = [NoChild EXCEPT !.st = "running"]]
    /\ current_proc' = RunningSlot(nstart, req[t])
    /\ proc_lock' = NoThread
    /\ pc' = [pc EXCEPT ![t] = "idle", ![<<"r", nstart>>] = "read"]
    /\ resp' = Resp("started")
    /\ req' = [req EXCEPT ![t] = NoReq]
    /\ UNCHANGED <<subscribers, history, q, cur, nstart>>

\* faulty variant: proc_lock is not released when Popen raises
SpPopenFailKeepsLock(t) ==
    /\ pc[t] = "sp_popen"
    /\ FALSE \in PopenOutcomes(req[t].args)
    /\ pc' = [pc EXCEPT ![t] = "idle"]
    /\ resp' = Resp("error: spawn failed")
    /\ req' = [req EXCEPT ![t] = NoReq]
    /\ UNCHANGED <<proc_lock, current_proc, subscribers, history, q, cur,
                   child, nstart>>

\* faulty variant: the slot is written before Popen is called
SpPopenFailRegisters(t) ==
    /\ pc[t] = "sp_popen"
    /\ FALSE \in PopenOutcomes(req[t].args)
    /\ current_proc' = RunningSlot(nstart, req[t])
    /\ proc_lock' = NoThread
    /\ pc' = [pc EXCEPT ![t] = "idle"]
    /\ resp' = Resp("error: spawn failed")
    /\ req' = [req EXCEPT ![t] = NoReq]
    /\ UNCHANGED <<subscribers, history, q, cur, child, nstart>>

\* subprocess.Popen raises: the with block releases proc_lock
SpPopenFail(t) ==
    /\ pc[t] = "sp_popen"
    /\ FALSE \in PopenOutcomes(req[t].args)
    /\ proc_lock' = NoThread
    /\ pc' = [pc EXCEPT ![t] = "idle"]
    /\ resp' = Resp("error: spawn failed")
    /\ req' = [req EXCEPT ![t] = NoReq]
    /\ UNCHANGED <<current_proc, subscribers, history, q, cur, child, nstart>>

\* ---------- the child process (the environment) ----------
\* the child writes one more line to its stdout pipe
ChildWrite(j) ==
    /\ child[j].st = "running"
    /\ child[j].nout < MaxOut
    /\ child' = [child EXCEPT
         ![j].pipe = Append(@, Line("out", j, child[j].nout + 1)),
         ![j].nout = @ + 1]
    /\ resp' = NoResp
    /\ UNCHANGED <<proc_lock, current_proc, subscribers, history, q, pc, cur,
                   req, nstart>>

\* the child ends by itself, which closes its stdout
ChildExit(j) ==
    /\ child[j].st = "running"
    /\ child' = [child EXCEPT ![j].st = "exited", ![j].rc = 0,
                              ![j].sig = FALSE, ![j].nout = 0]
    /\ resp' = NoResp
    /\ UNCHANGED <<proc_lock, current_proc, subscribers, history, q, pc, cur,
                   req, nstart>>

\* the child ends because of the SIGINT it was sent (it may also ignore it)
ChildInterrupted(j) ==
    /\ child[j].st = "running"
    /\ child[j].sig
    /\ child' = [child EXCEPT ![j].st = "exited", ![j].rc = SignalledRc(SIGINT),
                              ![j].sig = FALSE, ![j].nout = 0]
    /\ resp' = NoResp
    /\ UNCHANGED <<proc_lock, current_proc, subscribers, history, q, pc, cur,
                   req, nstart>>

\* ---------- reader (the capture thread of one job) ----------
\* for line in p.stdout: broadcast(line)
ReaderLine(j) ==
    /\ pc[<<"r", j>>] = "read"
    /\ child[j].pipe # <<>>
    /\ cur' = [cur EXCEPT ![<<"r", j>>] = Head(child[j].pipe)]
    /\ child' = [child EXCEPT ![j].pipe = SubSeq(@, 2, Len(@))]
    /\ pc' = [pc EXCEPT ![<<"r", j>>] = "bc_append"]
    /\ resp' = NoResp
    /\ UNCHANGED <<proc_lock, current_proc, subscribers, history, q, req,
                   nstart>>

\* the loop ends at end of file
ReaderEof(j) ==
    /\ pc[<<"r", j>>] = "read"
    /\ child[j].pipe = <<>>
    /\ child[j].st = "exited"
    /\ pc' = [pc EXCEPT ![<<"r", j>>] = "wait"]
    /\ resp' = NoResp
    /\ UNCHANGED <<proc_lock, current_proc, subscribers, history, q, cur, req,
                   child, nstart>>

\* reading or decoding a line raises: the loop is left through finally
ReaderReadFail(j) ==
    /\ pc[<<"r", j>>] = "read"
    /\ pc' = [pc EXCEPT ![<<"r", j>>] = "wait"]
    /\ resp' = NoResp
    /\ UNCHANGED <<proc_lock, current_proc, subscribers, history, q, cur, req,
                   child, nstart>>

\* faulty variant: the slot is cleared before the last broadcast
ReaderWaitClearsFirst(j) ==
    /\ pc[<<"r", j>>] = "wait"
    /\ child[j].st = "exited"
    /\ proc_lock = NoThread
    /\ current_proc' = IdleSlot
    /\ child' = [child EXCEPT ![j] = [NoChild EXCEPT !.st = "reaped"]]
    /\ cur' = [cur EXCEPT ![<<"r", j>>] = Line("fin", j, child[j].rc)]
    /\ pc' = [pc EXCEPT ![<<"r", j>>] = "bc_append"]
    /\ resp' = NoResp
    /\ UNCHANGED <<proc_lock, subscribers, history, q, req, nstart>>

\* finally: rc = p.wait(); broadcast('# Finished with exit code rc')
ReaderWait(j) ==
    /\ pc[<<"r", j>>] = "wait"
    /\ child[j].st = "exited"
    /\ child' = [child EXCEPT ![j] = [NoChild EXCEPT !.st = "reaped"]]
    /\ cur' = [cur EXCEPT ![<<"r", j>>] = Line("fin", j, child[j].rc)]
    /\ pc' = [pc EXCEPT ![<<"r", j>>] = "bc_append"]
    /\ resp' = NoResp
    /\ UNCHANGED <<proc_lock, current_proc, subscribers, history, q, req,
                   nstart>>

\* with proc_lock: current_proc.update(all None)
ReaderClear(j) ==
    /\ pc[<<"r", j>>] = "clear"
    /\ proc_lock = NoThread
    /\ current_proc' = IdleSlot
    /\ pc' = [pc EXCEPT ![<<"r", j>>] = "done"]
    /\ resp' = NoResp
    /\ UNCHANGED <<proc_lock, subscribers, history, q, cur, req, child,
                   nstart>>

\* ---------- api_stop, api_status ----------
\* faulty variant: no signal is sent
KillPgNothing(ch, j) == ch

\* os.killpg(os.getpgid(p.pid), SIGINT): ProcessLookupError once reaped
KillPg(ch, j) ==
    IF ch[j].st = "running" THEN [ch EXCEPT ![j].sig = TRUE] ELSE ch

\* faulty variant: the answer does not look at the slot
StopResultStopping(cp) == "stopping"

\* the answer of api_stop
StopResult(cp) == IF cp.p = None THEN "idle" ELSE "stopping"

\* faulty variant: Stop itself clears the slot
ApiStopClears(t) ==
    /\ pc[t] = "idle"
    /\ proc_lock = NoThread
    /\ child' = IF current_proc.p = None THEN child
                ELSE KillPg(child, current_proc.p[1])
    /\ current_proc' = IdleSlot
    /\ resp' = Resp(StopResult(current_proc))
    /\ UNCHANGED <<proc_lock, subscribers, history, q, pc, cur, req, nstart>>

\* faulty variant: ProcessLookupError is not caught
ApiStopUncaught(t) ==
    /\ pc[t] = "idle"
    /\ proc_lock = NoThread
    /\ child' = IF current_proc.p = None THEN child
                ELSE KillPg(child, current_proc.p[1])
    /\ resp' = IF current_proc.p # None
                  /\ child[current_proc.p[1]].st = "reaped"
               THEN Resp("error: ProcessLookupError")
               ELSE Resp(StopResult(current_proc))
    /\ UNCHANGED <<proc_lock, current_proc, subscribers, history, q, pc, cur,
                   req, nstart>>

\* api_stop: with proc_lock: idle, or signal the process group
ApiStop(t) ==
    /\ pc[t] = "idle"
    /\ proc_lock = NoThread
    /\ child' = IF current_proc.p = None THEN child
                ELSE KillPg(child, current_proc.p[1])
    /\ resp' = Resp(StopResult(current_proc))
    /\ UNCHANGED <<proc_lock, current_proc, subscribers, history, q, pc, cur,
                   req, nstart>>

StatusOf(cp) ==
    [status |-> "status", running |-> cp.p # None, args |-> cp.args,
     start_ts |-> cp.start_ts]

ApiStatus(t) ==
    /\ pc[t] = "idle"
    /\ proc_lock = NoThread
    /\ resp' = StatusOf(current_proc)
    /\ UNCHANGED <<proc_lock, current_proc, subscribers, history, q, pc, cur,
                   req, child, nstart>>

\* ---------- sse_stream ----------
\* q = queue.Queue(maxsize=1000)
\* with history_lock: for ln in history[-500:]: q.put_nowait(ln)
SseSeed(t) ==
    /\ pc[t] = "idle"
    /\ q' = [q EXCEPT ![t] = Seed(history, SEED_WINDOW)]
    /\ pc' = [pc EXCEPT ![t] = "ss_add"]
    /\ resp' = NoResp
    /\ UNCHANGED <<proc_lock, current_proc, subscribers, history, cur, req,
                   child, nstart>>

\* subscribers.add(q)
SseAdd(t) ==
    /\ pc[t] = "ss_add"
    /\ subscribers' = subscribers \cup {t}
    /\ pc' = [pc EXCEPT ![t] = "stream"]
    /\ resp' = NoResp
    /\ UNCHANGED <<proc_lock, current_proc, history, q, cur, req, child,
                   nstart>>

\* line = q.get(); yield it
SseGet(t) ==
    /\ pc[t] = "stream"
    /\ q[t] # <<>>
    /\ q' = [q EXCEPT ![t] = SubSeq(@, 2, Len(@))]
    /\ resp' = NoResp
    /\ UNCHANGED <<proc_lock, current_proc, subscribers, history, pc, cur,
                   req, child, nstart>>

\* faulty variant: subscribers.remove(q), KeyError when q is absent
SseCloseRemove(t) ==
    /\ pc[t] = "stream"
    /\ subscribers' = Discard(subscribers, t)
    /\ q' = [q EXCEPT ![t] = <<>>]
    /\ pc' = [pc EXCEPT ![t] = "idle"]
    /\ resp' = IF t \in subscribers THEN NoResp ELSE Resp("error: KeyError")
    /\ UNCHANGED <<proc_lock, current_proc, history, cur, req, child, nstart>>

\* the client disconnects: finally: subscribers.discard(q)
SseClose(t) ==
    /\ pc[t] = "stream"
    /\ subscribers' = Discard(subscribers, t)
    /\ q' = [q EXCEPT ![t] = <<>>]
    /\ pc' = [pc EXCEPT ![t] = "idle"]
    /\ resp' = NoResp
    /\ UNCHANGED <<proc_lock, current_proc, history, cur, req, child, nstart>>

Next ==
    \/ \E t \in Threads : BcAppend(t) \/ BcFanOut(t)
    \/ \E t \in Handlers, url \in URLs : ApiStart(t, url)
    \/ \E t \in Handlers, cmd \in Cmds : ApiRunRaw(t, cmd)
    \/ \E t \in Handlers : StartEmpty(t)
    \/ \E t \in Handlers : SpPopenOk(t) \/ SpPopenFail(t)
    \/ \E j \in Jobs : ChildWrite(j) \/ ChildExit(j) \/ ChildInterrupted(j)
    \/ \E j \in Jobs : ReaderLine(j) \/ ReaderEof(j) \/ ReaderWait(j)
    \/ \E j \in Jobs : ReaderReadFail(j) \/ ReaderClear(j)
    \/ \E t \in Handlers : ApiStop(t) \/ ApiStatus(t)
    \/ \E t \in Handlers : SseSeed(t) \/ SseAdd(t) \/ SseGet(t) \/ SseClose(t)

Spec == Init /\ [][Next]_vars

\* the steps of the capture thread of job j but a read failure: the thread
\* is started by spawn_process and scheduled until reader returns
ReaderStep(j) ==
    \/ ReaderLine(j) \/ ReaderEof(j) \/ ReaderWait(j) \/ ReaderClear(j)
    \/ BcAppend(<<"r", j>>) \/ BcFanOut(<<"r", j>>)

\* the steps of handler t inside the critical section of spawn_process
CritStep(t) == BcAppend(t) \/ BcFanOut(t) \/ SpPopenOk(t) \/ SpPopenFail(t)

\* every thread that can take a step of its own code is eventually scheduled;
\* nothing is assumed of the clients and of the child
FairSpec ==
    /\ Spec
    /\ \A j \in Jobs : WF_vars(ReaderStep(j))
    /\ \A t \in Handlers : WF_vars(CritStep(t))

\* ---------- definitions used by the properties ----------
AlreadyRunning == Resp("error: Another task is running")

\* the arguments spawn_process is called with
StartRequests ==
    {[args |-> BuildArgs(u), raw |-> FALSE] : u \in URLs \ {""}}
        \cup {[args |-> ShlexSplit(c), raw |-> TRUE] : c \in Cmds \ {""}}
        \cup {[args |-> <<>>, raw |-> FALSE]}

\* children that exist as OS processes (spawned and not yet reaped)
LiveChildren == {j \in Jobs : child[j].st \in {"running", "exited"}}

\* capture threads that have not finished
ActiveReaders == {j \in Jobs : pc[<<"r", j>>] \notin {"off", "done"}}

\* handlers inside the critical section of spawn_process
Spawning == {t \in Handlers : pc[t] \in {"bc_append", "bc_fanout", "sp_popen"}}

Last(s) == s[Len(s)]

\* ---------- C1 ----------
C1_OneJob ==
    /\ Cardinality(LiveChildren) <= 1
    /\ Cardinality(ActiveReaders) <= 1
    /\ Cardinality(Spawning) <= 1
    /\ LiveChildren \subseteq ActiveReaders
    /\ \A j \in ActiveReaders : current_proc.p = Some(j)
    /\ Spawning # {} => ActiveReaders = {} /\ current_proc = IdleSlot

C1_StartStep ==
    /\ \A t \in Handlers :
          /\ SpPopenOk(t) => current_proc = IdleSlot /\ LiveChildren = {}
          /\ (pc[t] = "idle" /\ pc'[t] = "bc_append")
                => current_proc.p = None /\ proc_lock' = t
    /\ resp' = AlreadyRunning
          => current_proc.p # None /\ proc_lock' = NoThread

C2_BusyStartNoEffect ==
    [][\A t \in Handlers, r \in StartRequests :
          SpawnProcess(t, r) /\ current_proc.p # None
              => /\ resp' = AlreadyRunning
                 /\ UNCHANGED <<proc_lock, current_proc, subscribers, history,
                                q, pc, cur, req, child, nstart>>]_vars

\* a Start was refused while a job ran and a subscriber was listening
C2_Witness ==
    /\ resp = AlreadyRunning
    /\ current_proc.p # None
    /\ subscribers # {}
    /\ history # <<>>

\* ---------- C3 ----------
\* threads between the History append and the fan-out of a broadcast
InFanOut == {t \in Threads : pc[t] = "bc_fanout"}

\* position of a line in History (0 when it is not there)
PosIn(h, ln) ==
    IF \E i \in 1..Len(h) : h[i] = ln
    THEN CHOOSE i \in 1..Len(h) : h[i] = ln
    ELSE 0

\* C3: a subscriber gets every line appended around or after its snapshot
\* exactly once, from the seed or from the live fan-out: two lines that stand
\* next to each other in a subscriber's queue, both still in History, stand
\* next to each other in History too (none lost between them, none twice).
C3_ExactlyOnce ==
    \A s \in Handlers :
        \A i \in 1..(Len(q[s]) - 1) :
            (PosIn(history, q[s][i]) > 0 /\ PosIn(history, q[s][i + 1]) > 0)
                => PosIn(history, q[s][i + 1]) = PosIn(history, q[s][i]) + 1

\* ---------- C4 ----------
\* what one append does to History
C4_AppendStep ==
    /\ history' # history => \E t \in Threads : BcAppend(t)
    /\ \A t \in Threads :
          BcAppend(t) =>
            /\ Len(history') =
                 (IF Len(history) < LOG_HISTORY_MAX
                  THEN Len(history) + 1 ELSE LOG_HISTORY_MAX)
            /\ Last(history') = cur[t]
            /\ \A i \in 1..(Len(history') - 1) :
                  history'[i] = history[i + Len(history) + 1 - Len(history')]

\* C4: History never holds more than LOG_HISTORY_MAX lines, and every append
\* puts the new line last and keeps, in order, the most recent lines before
\* it, dropping only the oldest: after capacity+k appends History is the last
\* capacity lines appended.
C4_BoundedRing ==
    [](Len(history) <= LOG_HISTORY_MAX) /\ [][C4_AppendStep]_vars

\* the first line ever appended has been evicted from a full History
C4_Witness ==
    /\ Len(history) = LOG_HISTORY_MAX
    /\ \A i \in 1..Len(history) : history[i] # Line("start", 1, 0)

\* ---------- C5 ----------
C5_FanOutStep ==
    \A t \in Threads :
        BcFanOut(t) =>
            \A s \in subscribers :
                IF QueueFull(q[s])
                THEN s \notin subscribers' /\ q'[s] = q[s]
                ELSE s \in subscribers' /\ q'[s] = Append(q[s], cur[t])

\* only its own seeding or a fan-out to a registered queue lengthens a queue
C5_NoLateDelivery ==
    \A s \in Handlers :
        Len(q'[s]) > Len(q[s]) => s \in subscribers \/ SseSeed(s)

\* C5: the fan-out of an Append is always able to complete, whatever the
\* queues hold; in it every registered subscriber whose queue has room gets
\* the line, every subscriber whose queue is full is removed from the
\* registry with its queue untouched, and a queue that is not registered is
\* never delivered to.
C5_SlowSubscriber ==
    /\ [](\A t \in Threads : pc[t] = "bc_fanout" => ENABLED BcFanOut(t))
    /\ [][C5_FanOutStep /\ C5_NoLateDelivery]_vars

\* one subscriber was dropped with a full queue while another got the line
C5_Witness ==
    \E s1, s2 \in Handlers :
        /\ pc[s1] = "stream" /\ s1 \notin subscribers /\ QueueFull(q[s1])
        /\ s2 \in subscribers
        /\ q[s2] # <<>>
        /\ Last(q[s2]) = Last(history)
        /\ Last(q[s1]) # Last(history)

\* ---------- C6 ----------
C6_InOrder ==
    \A s \in Handlers :
        \A i, k \in 1..Len(q[s]) :
            (i < k /\ PosIn(history, q[s][i]) > 0 /\ PosIn(history, q[s][k]) > 0)
                => PosIn(history, q[s][i]) <= PosIn(history, q[s][k])

\* a queue grows at its tail by the newest line of History and shrinks at its
\* head
C6_QueueStep ==
    \A s \in Handlers :
        /\ (Len(q'[s]) > Len(q[s]) /\ ~SseSeed(s))
              => q'[s] = Append(q[s], Last(history))
        /\ Len(q'[s]) < Len(q[s])
              => SseClose(s) \/ q'[s] = SubSeq(q[s], 2, Len(q[s]))
        /\ Len(q'[s]) = Len(q[s]) => q'[s] = q[s]

\* C6: the lines of every subscriber's queue are in the order in which they
\* stand in History: no queue holds a line in front of one appended before
\* it; a delivery adds the newest line of History at the tail of the queue
\* and the consumer takes lines from its head.
C6_DeliveryOrder == [](C6_InOrder) /\ [][C6_QueueStep]_vars

\* a queue holds two different lines that are both still in History
C6_Witness ==
    \E s \in Handlers :
        /\ Len(q[s]) = 2
        /\ PosIn(history, q[s][1]) > 0
        /\ PosIn(history, q[s][2]) > PosIn(history, q[s][1])

\* ---------- C7 ----------
\* b may directly follow a in History
Follows(a, b) ==
    \/ /\ b.kind = "out" /\ b.n = 1
       /\ a = Line("start", b.job, 0)
    \/ /\ b.kind = "out" /\ b.n > 1
       /\ a = Line("out", b.job, b.n - 1)
    \/ /\ b.kind = "fin"
       /\ a.job = b.job /\ a.kind \in {"start", "out"}
    \/ /\ b.kind = "start"
       /\ a.job + 1 = b.job
       /\ \/ a.kind = "fin"
          \/ a.kind = "start" /\ child[a.job].st = "none"

C7_Protocol ==
    /\ \A i \in 1..(Len(history) - 1) : Follows(history[i], history[i + 1])
    /\ \A i, k \in 1..Len(history) : i # k => history[i] # history[k]
    /\ \A j \in Jobs :
          child[j].st # "none" /\ j \notin ActiveReaders =>
              (history # <<>> /\ Last(history).job >= j)

C7_ClearStep ==
    current_proc.p # None /\ current_proc'.p = None =>
        /\ Last(history).kind = "fin"
        /\ Some(Last(history).job) = current_proc.p
        /\ \A t \in Threads : pc[t] \notin {"bc_append", "bc_fanout"}

C8_StopStep ==
    \A t \in Handlers :
        ApiStop(t) /\ current_proc.p # None =>
            /\ resp' = Resp("stopping")
            /\ current_proc' = current_proc
            /\ pc' = pc
            /\ \A j \in Jobs :
                  /\ child'[j].st = child[j].st
                  /\ (current_proc.p = Some(j) /\ child[j].st = "running")
                        => child'[j].sig

C8_OnlyReaderClears ==
    /\ current_proc.p # None /\ current_proc'.p = None
          => \E j \in Jobs : ReaderClear(j)
    /\ \A j \in Jobs :
          child[j].st = "running" /\ child'[j].st # "running"
              => ChildExit(j) \/ ChildInterrupted(j)

\* C8: Stop on a Running supervisor marks the child's process group as
\* signalled and answers 'stopping' in the same step, with the child still
\* in the state it was in; it leaves the slot as it is; only the reader's last
\* step clears the slot, only the child itself ends the child, and as long as
\* the child runs the slot stays occupied by it.
C8_StopRunning ==
    /\ [](\A j \in Jobs : child[j].st = "running" => current_proc.p = Some(j))
    /\ [][C8_StopStep /\ C8_OnlyReaderClears]_vars

\* Stop answered 'stopping'; the child has the signal and still runs
C8_Witness ==
    /\ resp = Resp("stopping")
    /\ \E j \in Jobs :
          /\ current_proc.p = Some(j)
          /\ child[j].st = "running"
          /\ child[j].sig

\* ---------- C9 ----------
\* C9: Stop on an Idle supervisor answers 'idle' and changes nothing else:
\* no child is signalled or spawned, the slot, History, the queues and the
\* registry stay as they are.
C9_StopIdle ==
    [][\A t \in Handlers :
          ApiStop(t) /\ current_proc.p = None
              => /\ resp' = Resp("idle")
                 /\ UNCHANGED <<proc_lock, current_proc, subscribers, history,
                                q, pc, cur, req, child, nstart>>]_vars

\* Stop answered 'idle' after a job had run, with a subscriber listening
C9_Witness ==
    /\ resp = Resp("idle")
    /\ current_proc = IdleSlot
    /\ history # <<>>
    /\ subscribers # {}
    /\ child[1].st = "reaped"

\* ---------- C10 ----------
\* C10: a Start with an empty argv, a missing url or a missing cmd is refused
\* before any side effect: no step of such a call appends to History, puts a
\* line on a queue, changes the registry, spawns a child or changes the slot.
C10_EmptyArgvRejected ==
    [][\A t \in Handlers :
          /\ (ApiStart(t, "") \/ ApiRunRaw(t, ""))
                => UNCHANGED <<proc_lock, current_proc, subscribers, history,
                               q, pc, cur, req, child, nstart>>
          /\ (\/ StartEmpty(t)
              \/ /\ req[t].args = <<>>
                 /\ BcAppend(t) \/ BcFanOut(t) \/ SpPopenOk(t) \/ SpPopenFail(t))
                => UNCHANGED <<current_proc, subscribers, history, q, child>>]_vars

\* ---------- C11 ----------
\* the step in which a handler leaves Popen without a child
C11_FailStep ==
    \A t \in Handlers :
       (pc[t] = "sp_popen" /\ pc'[t] # "sp_popen" /\ resp' # Resp("started"))
          => /\ resp' = Resp("error: spawn failed")
             /\ current_proc = IdleSlot
             /\ current_proc' = IdleSlot
             /\ proc_lock = t
             /\ proc_lock' = NoThread
             /\ child' = child
             /\ \A j \in Jobs : pc'[<<"r", j>>] = pc[<<"r", j>>]

\* right after a failed spawn no Start is answered AlreadyRunning, and a
\* Start of an idle handler claims the slot
C11_NextStartNotRefused ==
    resp = Resp("error: spawn failed")
       => /\ ~SlotBusy(current_proc)
          /\ proc_lock = NoThread
          /\ \A t \in Handlers, r \in StartRequests :
                /\ ~ENABLED SpBusy(t, r)
                /\ (pc[t] = "idle" /\ nstart < MaxJobs)
                      => ENABLED SpClaim(t, r)

\* C11: when spawning the child fails, the Start is answered with an error,
\* no child and no capture thread exist for it, the slot is Idle and the
\* Job-slot lock is free, so the next Start is not answered AlreadyRunning.
C11_SpawnFailure ==
    /\ [](C11_NextStartNotRefused)
    /\ [][C11_FailStep]_vars

\* a Start succeeded after the spawn of the Start before it had failed
C11_Witness ==
    /\ resp = Resp("started")
    /\ nstart = 2
    /\ child[1].st = "none"
    /\ pc[<<"r", 1>>] = "off"
    /\ current_proc.p = Some(2)

\* ---------- C12 ----------
\* C12: a Stop that finds the slot occupied by a child that has already
\* been reaped (its process group is gone) is not refused and does not
\* fail: it answers 'stopping', signals nothing, and leaves the slot, the
\* lock and everything else as they were.
C12_StopAfterReap ==
    /\ [](\A t \in Handlers, j \in Jobs :
            (/\ pc[t] = "idle"
             /\ proc_lock = NoThread
             /\ current_proc.p = Some(j)
             /\ child[j].st = "reaped") => ENABLED ApiStop(t))
    /\ [][\A t \in Handlers, j \in Jobs :
            (ApiStop(t) /\ current_proc.p = Some(j) /\ child[j].st = "reaped")
               => /\ resp' = Resp("stopping")
                  /\ proc_lock' = NoThread
                  /\ UNCHANGED <<proc_lock, current_proc, subscribers,
                                 history, q, pc, cur, req, child, nstart>>]_vars

\* Stop answered 'stopping' for a reaped child whose slot is not yet cleared
C12_Witness ==
    /\ resp = Resp("stopping")
    /\ \E j \in Jobs :
          /\ current_proc.p = Some(j)
          /\ child[j].st = "reaped"
          /\ pc[<<"r", j>>] \in {"bc_append", "bc_fanout", "clear"}

\* ---------- C13 ----------
\* s holds the last min(Len(h), n) lines of h, oldest first
C13_SeedIs(h, n, s) ==
    /\ Len(s) = (IF Len(h) < n THEN Len(h) ELSE n)
    /\ \A i \in 1..Len(s) : s[i] = h[Len(h) - Len(s) + i]

\* the step that creates and seeds the queue of a new subscription
C13_SeedStep ==
    \A t \in Handlers :
       (pc[t] = "idle" /\ pc'[t] = "ss_add")
          => /\ C13_SeedIs(history, SEED_WINDOW, q'[t])
             /\ Len(q'[t]) <= QUEUE_MAXSIZE
             /\ UNCHANGED <<history, subscribers>>

\* C13: the queue of a new subscription holds exactly the last
\* min(N, SEED_WINDOW) lines of History as it is when the snapshot is taken,
\* oldest first; and for every window that fits the queue the seeding loop
\* yields exactly the last min(N, window) lines of every reachable History,
\* oldest first, none dropped.
C13_SeedSnapshot ==
    /\ [](\A n \in 1..QUEUE_MAXSIZE :
            C13_SeedIs(history, n, Seed(history, n)))
    /\ [][C13_SeedStep]_vars

\* a queue seeded from a History longer than the window, not yet registered
C13_Witness ==
    \E t \in Handlers :
       /\ pc[t] = "ss_add"
       /\ Len(history) > SEED_WINDOW
       /\ Len(history) >= QUEUE_MAXSIZE
       /\ q[t] = LastN(history, SEED_WINDOW)
       /\ q[t] # <<>>

\* ---------- C14 ----------
\* the step in which a stream ends and its queue is unsubscribed
C14_CloseStep ==
    \A t \in Handlers :
       (pc[t] = "stream" /\ pc'[t] = "idle")
          => /\ resp' = NoResp
             /\ t \notin subscribers'
             /\ \A s \in Handlers \ {t} :
                   (s \in subscribers') = (s \in subscribers)
             /\ t \notin subscribers => subscribers' = subscribers

\* C14: unsubscribing is always possible and never raises; it removes the
\* stream's own queue and no other; when the queue is already absent, because
\* a fan-out dropped it as dead, the registry is left as it is; and on every
\* reachable registry removing a queue twice gives what removing it once
\* gives.
C14_UnsubscribeIdempotent ==
    /\ [](\A t \in Handlers :
            /\ pc[t] = "stream" => ENABLED SseClose(t)
            /\ Discard(Discard(subscribers, t), t) = Discard(subscribers, t)
            /\ t \notin subscribers => Discard(subscribers, t) = subscribers)
    /\ [][C14_CloseStep]_vars

\* a stream that is still open after a fan-out dropped its queue as dead,
\* while another queue is registered: its close removes an absent queue
C14_Witness ==
    \E t, s \in Handlers :
       /\ pc[t] = "stream"
       /\ t \notin subscribers
       /\ QueueFull(q[t])
       /\ s \in subscribers

\* ---------- C15 ----------
\* the slot is Idle, or Running with all the fields of one job
C15_TwoStates ==
    \/ current_proc = IdleSlot
    \/ \E j \in Jobs, r \in StartRequests : current_proc = RunningSlot(j, r)

\* the two transitions of the slot and the steps that make them
C15_Transitions ==
    /\ current_proc' # current_proc
          => \/ /\ current_proc = IdleSlot
                /\ resp' = Resp("started")
                /\ \E t \in Handlers : pc[t] = "sp_popen" /\ pc'[t] = "idle"
             \/ /\ current_proc # IdleSlot
                /\ current_proc' = IdleSlot
                /\ \E j \in Jobs :
                      /\ current_proc.p = Some(j)
                      /\ pc[<<"r", j>>] = "clear"
                      /\ pc'[<<"r", j>>] = "done"
    /\ resp' = Resp("started")
          => current_proc = IdleSlot /\ current_proc' # IdleSlot

\* Stop, Status and a refused, failed or invalid Start are the steps that
\* answer something else than 'started'; Append and Subscribe are the steps
\* of a thread inside broadcast and of a handler inside sse_stream
C15_OtherSteps ==
    /\ resp' \notin {NoResp, Resp("started")} => current_proc' = current_proc
    /\ \A t \in Threads :
          (pc[t] \in {"bc_append", "bc_fanout"} /\ pc'[t] # pc[t])
             => current_proc' = current_proc
    /\ \A t \in Handlers :
          (/\ pc[t] = "stream" \/ pc'[t] \in {"ss_add", "stream"}
           /\ pc'[t] # pc[t] \/ q'[t] # q[t])
             => current_proc' = current_proc

\* C15: the slot is always Idle or Running; it goes from Idle to Running
\* only in the step that answers 'started', and that step always does; it
\* goes from Running to Idle only in the last step of the capture thread of
\* the job it names; Stop, Status, a refused or failed Start, Subscribe and
\* Append never change it.
C15_SlotStateMachine ==
    /\ [](C15_TwoStates)
    /\ [][C15_Transitions /\ C15_OtherSteps]_vars

\* a Stop was answered 'stopping' and the slot still names the second job,
\* after the first job's capture thread had returned the slot to Idle
C15_Witness ==
    /\ resp = Resp("stopping")
    /\ current_proc.p = Some(2)
    /\ pc[<<"r", 1>>] = "done"

\* ---------- C16 ----------
\* C16: under fair scheduling of the capture thread, once the child of a job
\* has exited, whether its output ended by end of file or by a read failure,
\* the '# Finished' line of that job is appended to History and then the
\* slot is cleared with the lock free; a capture thread that has ended has
\* left the slot to others, so a later Start is not refused because of it.
C16_GuaranteedCleanup ==
    /\ [](\A j \in Jobs : pc[<<"r", j>>] = "done" => current_proc.p # Some(j))
    /\ \A j \in Jobs :
          child[j].st = "exited"
             ~> (/\ history # <<>>
                 /\ Last(history).kind = "fin"
                 /\ Last(history).job = j)
    /\ \A j \in Jobs :
          child[j].st = "exited"
             ~> (/\ pc[<<"r", j>>] = "done"
                 /\ current_proc = IdleSlot
                 /\ proc_lock = NoThread)

\* the second job was started after the capture thread of the first, whose
\* child had been stopped, cleared the slot
C16_Witness ==
    /\ resp = Resp("started")
    /\ current_proc.p = Some(2)
    /\ pc[<<"r", 1>>] = "done"
    /\ \E i \in 1..Len(history) :
          history[i] = Line("fin", 1, SignalledRc(SIGINT))

\* ---------- C17 ----------
\* C17: no step of broadcast, neither the append to History nor the fan-out
\* to the subscribers, is taken while a thread holds the Job-slot lock, so a
\* Stop or Status never finds the lock held by a thread that is working on
\* History or on the subscribers.
C17_LockIndependence ==
    [][\A t \in Threads :
          (BcAppend(t) \/ BcFanOut(t)) => proc_lock = NoThread]_vars

\* ---------- C18 ----------
\* threads inside a call of broadcast
InBroadcast == {t \in Threads : pc[t] \in {"bc_append", "bc_fanout"}}

\* C18: at most one thread is inside broadcast in any reachable state: a
\* handler is inside it only while it holds the Job-slot lock with the slot
\* Idle, a capture thread only while the slot names its job, and a thread
\* in its fan-out finds its own line the newest of History.
C18_BroadcastsSerialized ==
    /\ Cardinality(InBroadcast) <= 1
    /\ \A t \in InBroadcast :
          /\ IsHandler(t) => proc_lock = t /\ current_proc = IdleSlot
          /\ ~IsHandler(t) => current_proc.p = Some(t[2])
          /\ pc[t] = "bc_fanout" => history # <<>> /\ Last(history) = cur[t]

\* the Start of the second job is in its fan-out, to a registered subscriber,
\* after the capture thread of the first job has made its last broadcast
C18_Witness ==
    /\ pc[<<"r", 1>>] = "done"
    /\ subscribers # {}
    /\ \E t \in Handlers :
          /\ pc[t] = "bc_fanout"
          /\ cur[t] = Line("start", 2, 0)

\* ---------- C19 ----------
\* C19: in every reachable state the slot holds a process handle exactly
\* when it holds an argv and exactly when it holds a start timestamp, and
\* every Status answer reports running exactly when its argv and its start
\* timestamp are present and not running exactly when both are absent.
C19_SlotFieldsAgree ==
    /\ (current_proc.p # None) = (current_proc.args # None)
    /\ (current_proc.p # None) = (current_proc.start_ts # None)
    /\ resp.status = "status"
          => /\ resp.running = (resp.args # None /\ resp.start_ts # None)
             /\ ~resp.running = (resp.args = None /\ resp.start_ts = None)
             /\ resp = StatusOf(current_proc)

\* Status answered running with the argv and the timestamp of the second job
C19_Witness ==
    /\ resp.status = "status"
    /\ resp.running
    /\ resp.start_ts = Some(2)
    /\ resp.args = Some(ShlexSplit("c"))

\* ---------- C20 ----------
\* a thread that holds proc_lock is a handler inside spawn_process and its
\* next step can be taken; a capture thread, the only thread that waits for
\* the child's pipe or exit, holds no lock
C20_HolderRuns ==
    /\ proc_lock \in Handlers \cup {NoThread}
    /\ \A t \in Handlers : proc_lock = t => ENABLED CritStep(t)

\* the critical sections of history_lock wait for nothing, whoever holds
\* proc_lock; with proc_lock free every operation that needs it gets it
\* (a Start is held back only by the bound MaxJobs on spawn attempts)
C20_NoWaitCycle ==
    /\ \A t \in Threads : pc[t] = "bc_append" => ENABLED BcAppend(t)
    /\ \A t \in Handlers : pc[t] = "idle" => ENABLED SseSeed(t)
    /\ proc_lock = NoThread
          => /\ \A t \in Handlers :
                   pc[t] = "idle"
                      => /\ ENABLED ApiStop(t)
                         /\ ENABLED ApiStatus(t)
                         /\ ENABLED ApiStart(t, "u")
                               \/ (nstart >= MaxJobs /\ ~SlotBusy(current_proc))
                /\ \A j \in Jobs :
                      pc[<<"r", j>>] = "clear" => ENABLED ReaderClear(j)

====
